---- MODULE Spec2Model ----
(***************************************************************************)
(* Model of the calculator state machines of mitko4250/test_repo:          *)
(*   src/app/page.tsx       (reducer over one CalcState record)            *)
(*   src/unnamed/part_000   (five separate React state cells)              *)
(*                                                                         *)
(* A JavaScript Number is an IEEE-754 binary64 value.  TLC has 32-bit      *)
(* integers, so a finite Number is held exactly as sign * m * 2^e with m   *)
(* an odd natural number kept as a sequence of 15-bit limbs (least         *)
(* significant first).  Every arithmetic operator, Number(string) and the  *)
(* Number-to-string conversions are computed exactly and rounded once, as  *)
(* ECMA-262 prescribes.                                                    *)
(***************************************************************************)
EXTENDS Integers, Sequences, FiniteSets, TLC

(***************************************************************************)
(* Natural numbers of arbitrary size: sequences of limbs, base 2^15.       *)
(***************************************************************************)
LimbBits == 15
Base == 32768

Max(a, b) == IF a >= b THEN a ELSE b
Min(a, b) == IF a <= b THEN a ELSE b

RECURSIVE BNorm(_)
BNorm(x) ==
  IF x = <<>> THEN x
  ELSE IF x[Len(x)] = 0 THEN BNorm(SubSeq(x, 1, Len(x) - 1)) ELSE x

RECURSIVE BFromInt(_)
BFromInt(n) == IF n = 0 THEN <<>> ELSE <<n % Base>> \o BFromInt(n \div Base)

BOne == <<1>>

BLimb(x, i) == IF i >= 1 /\ i <= Len(x) THEN x[i] ELSE 0

RECURSIVE BCmpFrom(_, _, _)
BCmpFrom(x, y, i) ==
  IF i = 0 THEN 0
  ELSE IF x[i] > y[i] THEN 1
  ELSE IF x[i] < y[i] THEN -1
  ELSE BCmpFrom(x, y, i - 1)

\* -1, 0, 1 as x < y, x = y, x > y (both normalised)
BCmp(x, y) ==
  IF Len(x) > Len(y) THEN 1
  ELSE IF Len(x) < Len(y) THEN -1
  ELSE BCmpFrom(x, y, Len(x))

\* The recursions over limbs take four limbs a step to stay shallow.
RECURSIVE BAddC(_, _, _, _)
BAddC(x, y, i, c) ==
  IF i > Len(x) /\ i > Len(y) THEN (IF c = 0 THEN <<>> ELSE <<c>>)
  ELSE LET t1 == BLimb(x, i) + BLimb(y, i) + c
           t2 == BLimb(x, i + 1) + BLimb(y, i + 1) + t1 \div Base
           t3 == BLimb(x, i + 2) + BLimb(y, i + 2) + t2 \div Base
           t4 == BLimb(x, i + 3) + BLimb(y, i + 3) + t3 \div Base
       IN  <<t1 % Base, t2 % Base, t3 % Base, t4 % Base>>
             \o BAddC(x, y, i + 4, t4 \div Base)

BAdd(x, y) == BNorm(BAddC(x, y, 1, 0))

\* t \div Base and t % Base round towards minus infinity, so a negative
\* difference leaves the borrow -1 and the limb t + Base
RECURSIVE BSubC(_, _, _, _)
BSubC(x, y, i, b) ==
  IF i > Len(x) THEN <<>>
  ELSE LET t1 == BLimb(x, i) - BLimb(y, i) + b
           t2 == BLimb(x, i + 1) - BLimb(y, i + 1) + t1 \div Base
           t3 == BLimb(x, i + 2) - BLimb(y, i + 2) + t2 \div Base
           t4 == BLimb(x, i + 3) - BLimb(y, i + 3) + t3 \div Base
       IN  <<t1 % Base, t2 % Base, t3 % Base, t4 % Base>>
             \o BSubC(x, y, i + 4, t4 \div Base)

\* x - y for x >= y
BSub(x, y) == BNorm(BSubC(x, y, 1, 0))

RECURSIVE BMulSmallC(_, _, _, _)
BMulSmallC(x, k, i, c) ==
  IF i > Len(x) THEN (IF c = 0 THEN <<>> ELSE <<c>>)
  ELSE LET t1 == BLimb(x, i) * k + c
           t2 == BLimb(x, i + 1) * k + t1 \div Base
           t3 == BLimb(x, i + 2) * k + t2 \div Base
           t4 == BLimb(x, i + 3) * k + t3 \div Base
       IN  <<t1 % Base, t2 % Base, t3 % Base, t4 % Base>>
             \o BMulSmallC(x, k, i + 4, t4 \div Base)

\* x * k for 0 <= k < Base
BMulSmall(x, k) == IF k = 0 THEN <<>> ELSE BNorm(BMulSmallC(x, k, 1, 0))

\* n times c
Repeat(c, n) == [i \in 1..n |-> c]

RECURSIVE BMulAcc(_, _, _, _)
BMulAcc(x, y, i, acc) ==
  IF i > Len(y) \/ Len(acc) < 0 THEN acc
  ELSE BMulAcc(x, y, i + 1, BAdd(acc, Repeat(0, i - 1) \o BMulSmall(x, y[i])))

BMul(x, y) ==
  IF x = <<>> \/ y = <<>> THEN <<>>
  ELSE IF Len(x) >= Len(y) THEN BMulAcc(x, y, 1, <<>>)
  ELSE BMulAcc(y, x, 1, <<>>)

\* x * 2^n
BShl(x, n) ==
  IF x = <<>> THEN <<>>
  ELSE Repeat(0, n \div LimbBits) \o BMulSmall(x, 2 ^ (n % LimbBits))

\* quotient limbs of x by k from limb i down, r the remainder so far
RECURSIVE BDivSmallFrom(_, _, _, _)
BDivSmallFrom(x, k, i, r) ==
  IF i <= 0 THEN <<>>
  ELSE LET t1 == r * Base + x[i]
           t2 == (t1 % k) * Base + BLimb(x, i - 1)
           t3 == (t2 % k) * Base + BLimb(x, i - 2)
           t4 == (t3 % k) * Base + BLimb(x, i - 3)
       IN  BDivSmallFrom(x, k, i - 4, t4 % k) \o
             (IF i >= 4 THEN <<t4 \div k, t3 \div k, t2 \div k, t1 \div k>>
              ELSE IF i = 3 THEN <<t3 \div k, t2 \div k, t1 \div k>>
              ELSE IF i = 2 THEN <<t2 \div k, t1 \div k>>
              ELSE <<t1 \div k>>)

\* floor(x / k) for 0 < k <= Base
BDivSmall(x, k) == BNorm(BDivSmallFrom(x, k, Len(x), 0))

RECURSIVE BModSmallFrom(_, _, _, _)
BModSmallFrom(x, k, i, r) ==
  IF i = 0 \/ r < 0 THEN r
  ELSE BModSmallFrom(x, k, i - 1, (r * Base + x[i]) % k)

BModSmall(x, k) == BModSmallFrom(x, k, Len(x), 0)

\* floor(x / 2^n)
BShr(x, n) ==
  LET q == n \div LimbBits
      y == IF q >= Len(x) THEN <<>> ELSE SubSeq(x, q + 1, Len(x))
  IN  IF n % LimbBits = 0 THEN y ELSE BDivSmall(y, 2 ^ (n % LimbBits))

RECURSIVE IntBitLen(_)
IntBitLen(n) == IF n = 0 THEN 0 ELSE 1 + IntBitLen(n \div 2)

BBitLen(x) == IF x = <<>> THEN 0 ELSE (Len(x) - 1) * LimbBits + IntBitLen(x[Len(x)])

RECURSIVE IntTrailingZeros(_)
IntTrailingZeros(n) == IF n % 2 = 1 THEN 0 ELSE 1 + IntTrailingZeros(n \div 2)

RECURSIVE BTrailingZerosFrom(_, _)
BTrailingZerosFrom(x, i) ==
  IF x[i] = 0 THEN LimbBits + BTrailingZerosFrom(x, i + 1)
  ELSE IntTrailingZeros(x[i])

\* number of trailing zero bits of x > 0
BTrailingZeros(x) == BTrailingZerosFrom(x, 1)

BIsOdd(x) == x # <<>> /\ x[1] % 2 = 1

\* Long division by d with its top limb at least Base / 2.  One step takes
\* the remainder r < Base * d and the quotient limbs qs so far to the
\* remainder r - q * d and the limbs <<q>> \o qs, for the largest q with
\* q * d <= r: the estimate q from the top limbs is at most 2 too high.
RECURSIVE DivLimbFrom(_, _, _, _)
DivLimbFrom(r, d, q, qs) ==
  IF BCmp(BMulSmall(d, q), r) > 0 THEN DivLimbFrom(r, d, q - 1, qs)
  ELSE [r |-> BSub(r, BMulSmall(d, q)), q |-> <<q>> \o qs]

DivLimb(r, d, qs) ==
  IF BCmp(r, d) < 0 THEN [r |-> r, q |-> <<0>> \o qs]
  ELSE DivLimbFrom(r, d,
         Min(Base - 1, (BLimb(r, Len(d) + 1) * Base + r[Len(d)]) \div d[Len(d)]),
         qs)

\* limb i of a downwards: z.r is the remainder and z.q the quotient so far
RECURSIVE DivLoop(_, _, _, _)
DivLoop(a, d, i, z) ==
  IF i = 0 \/ Len(z.q) < 0 THEN [q |-> BNorm(z.q), rnz |-> z.r # <<>>]
  ELSE DivLoop(a, d, i - 1, DivLimb(BNorm(<<a[i]>> \o z.r), d, z.q))

\* a by d for a >= d, both shifted to bring the top limb of d to Base / 2
\* or more: the top Len(d) - 1 limbs of a are the first remainder
DivNormal(a, d) ==
  DivLoop(a, d, Len(a) - Len(d) + 1,
          [r |-> BNorm(SubSeq(a, Len(a) - Len(d) + 2, Len(a))), q |-> <<>>])

\* floor(a / d) as q, and whether a remainder is left as rnz  (d > 0)
BDivMod(a, d) ==
  IF BCmp(a, d) < 0 THEN [q |-> <<>>, rnz |-> a # <<>>]
  ELSE IF Len(d) = 1
  THEN [q |-> BDivSmall(a, d[1]), rnz |-> BModSmall(a, d[1]) # 0]
  ELSE DivNormal(BShl(a, LimbBits - IntBitLen(d[Len(d)])),
                  BShl(d, LimbBits - IntBitLen(d[Len(d)])))

\* 5^n by repeated squaring
RECURSIVE BPow5(_)
BPow5(n) ==
  IF n <= 6 THEN BFromInt(5 ^ n)
  ELSE LET h == BPow5(n \div 2)
       IN  BMulSmall(BMul(h, h), IF n % 2 = 0 THEN 1 ELSE 5)

BPow2(n) == BShl(BOne, n)
BPow10(n) == BShl(BPow5(n), n)

(***************************************************************************)
(* IEEE-754 binary64 values.  A finite value is sign * m * 2^e with m odd  *)
(* (or m = 0, e = 0 for the two zeros); NaN and the infinities are kinds.  *)
(***************************************************************************)
PrecBits == 53
MinExp == -1074
MaxBinExp == 1024

Fin(s, m, e) == [k |-> "num", s |-> s, m |-> m, e |-> e]
NaN == [k |-> "NaN", s |-> 0, m |-> <<>>, e |-> 0]
Inf(s) == [k |-> "Infinity", s |-> s, m |-> <<>>, e |-> 0]
Zero(s) == Fin(s, <<>>, 0)
null == [k |-> "null", s |-> 0, m |-> <<>>, e |-> 0]

\* Number.isFinite
IsFinite(a) == a.k = "num"
IsZero(a) == a.k = "num" /\ a.m = <<>>

\* sign * m * 2^e with the trailing zero bits of m moved into e
Canon(s, m, e) ==
  IF m = <<>> THEN Zero(s)
  ELSE LET z == BTrailingZeros(m) IN Fin(s, BShr(m, z), e + z)

\* sign * m * 2^e for m of at most 53 bits, the infinity beyond the range
Finite(s, m, e) ==
  IF BBitLen(m) + e > MaxBinExp THEN Inf(s) ELSE Canon(s, m, e)

\* Q without its lowest drop bits, rounded to nearest, ties to even; st
\* tells whether more than those bits was cut off before
RoundKept(Q, st, drop) ==
  LET kept == BShr(Q, drop)
      up   == /\ BIsOdd(BShr(Q, drop - 1))
              /\ (st \/ BTrailingZeros(Q) < drop - 1 \/ BIsOdd(kept))
  IN  IF up THEN BAdd(kept, BOne) ELSE kept

\* The binary64 value nearest to sign * (Q + f) * 2^u, ties to even, where
\* 0 <= f < 1 and st tells whether f > 0.  Q has at least 55 bits when st.
RoundBits(s, Q, st, u) ==
  IF Q = <<>> THEN Zero(s)
  ELSE LET drop == Max(BBitLen(Q) - PrecBits, MinExp - u)
       IN  Finite(s, IF drop <= 0 THEN Q ELSE RoundKept(Q, st, drop),
                  u + Max(drop, 0))

RoundQuotient(s, qr, u) == RoundBits(s, qr.q, qr.rnz, u)

\* The binary64 value nearest to sign * (N / D) * 2^x  (D > 0): the quotient
\* is taken to 55 bits or more
RoundRat(s, N, D, x) ==
  IF N = <<>> THEN Zero(s)
  ELSE LET t == Max(55 - (BBitLen(N) - BBitLen(D)), 0)
       IN  RoundQuotient(s, BDivMod(BShl(N, t), D), x - t)

\* unary minus
Neg(a) == IF a.k = "NaN" \/ a.k = "null" THEN a ELSE [a EXCEPT !.s = 1 - a.s]

\* Math.abs
Abs(a) == IF a.k = "NaN" THEN a ELSE [a EXCEPT !.s = 0]

\* a + b on Numbers
NumAdd(a, b) ==
  IF a.k = "NaN" \/ b.k = "NaN" THEN NaN
  ELSE IF a.k = "Infinity" THEN
         (IF b.k = "Infinity" /\ b.s # a.s THEN NaN ELSE a)
  ELSE IF b.k = "Infinity" THEN b
  ELSE IF a.m = <<>> /\ b.m = <<>> THEN Zero(IF a.s = 1 /\ b.s = 1 THEN 1 ELSE 0)
  ELSE IF a.m = <<>> THEN b
  ELSE IF b.m = <<>> THEN a
  ELSE
    LET x   == Min(a.e, b.e)
        ma  == BShl(a.m, a.e - x)
        mb  == BShl(b.m, b.e - x)
        c   == BCmp(ma, mb)
        sum == IF a.s = b.s THEN BAdd(ma, mb)
               ELSE IF c >= 0 THEN BSub(ma, mb) ELSE BSub(mb, ma)
        s   == IF a.s = b.s \/ c > 0 THEN a.s ELSE IF c = 0 THEN 0 ELSE b.s
    IN  RoundBits(s, sum, FALSE, x)

\* a - b on Numbers
NumSub(a, b) == NumAdd(a, Neg(b))

\* a * b on Numbers
NumMul(a, b) ==
  LET s == (a.s + b.s) % 2
  IN  IF a.k = "NaN" \/ b.k = "NaN" THEN NaN
      ELSE IF a.k = "Infinity" \/ b.k = "Infinity" THEN
             (IF IsZero(a) \/ IsZero(b) THEN NaN ELSE Inf(s))
      ELSE IF a.m = <<>> \/ b.m = <<>> THEN Zero(s)
      ELSE RoundBits(s, BMul(a.m, b.m), FALSE, a.e + b.e)

\* a / b on Numbers
NumDiv(a, b) ==
  LET s == (a.s + b.s) % 2
  IN  IF a.k = "NaN" \/ b.k = "NaN" THEN NaN
      ELSE IF a.k = "Infinity" THEN (IF b.k = "Infinity" THEN NaN ELSE Inf(s))
      ELSE IF b.k = "Infinity" THEN Zero(s)
      ELSE IF b.m = <<>> THEN (IF a.m = <<>> THEN NaN ELSE Inf(s))
      ELSE RoundRat(s, a.m, b.m, a.e - b.e)

\* -1, 0, 1 as a < b, a = b, a > b for finite non-negative a, b
MagCmp(a, b) ==
  IF a.m = <<>> THEN (IF b.m = <<>> THEN 0 ELSE -1)
  ELSE IF b.m = <<>> THEN 1
  ELSE
    LET la == BBitLen(a.m) + a.e
        lb == BBitLen(b.m) + b.e
        x  == Min(a.e, b.e)
    IN  IF la > lb THEN 1
        ELSE IF la < lb THEN -1
        ELSE BCmp(BShl(a.m, a.e - x), BShl(b.m, b.e - x))

\* a < b and a >= b on finite Numbers
NumLt(a, b) ==
  IF IsZero(a) /\ IsZero(b) THEN FALSE
  ELSE IF a.s # b.s THEN a.s = 1
  ELSE IF a.s = 0 THEN MagCmp(a, b) < 0
  ELSE MagCmp(a, b) > 0

NumGeq(a, b) == ~NumLt(a, b)

(***************************************************************************)
(* Strings are sequences of one-character strings.                         *)
(***************************************************************************)
DigitChars == <<"0", "1", "2", "3", "4", "5", "6", "7", "8", "9">>
IsDigit(c) == \E i \in 1..10 : DigitChars[i] = c
DigitVal(c) == (CHOOSE i \in 1..10 : DigitChars[i] = c) - 1
AllDigits(str) == \A i \in 1..Len(str) : IsDigit(str[i])

\* String.prototype.includes for a one-character needle
Includes(str, c) == \E i \in 1..Len(str) : str[i] = c

\* index of the first occurrence of c in str, or 0
IndexOf(str, c) ==
  IF Includes(str, c) THEN CHOOSE i \in 1..Len(str) :
                             str[i] = c /\ \A j \in 1..(i - 1) : str[j] # c
  ELSE 0

\* String.prototype.slice(0, n) and slice(0, -1)
SliceTo(str, n) == SubSeq(str, 1, Min(n, Len(str)))
DropLast(str) == SubSeq(str, 1, Len(str) - 1)
From(str, i) == SubSeq(str, i, Len(str))

\* the natural number written by the decimal digits str[i..], four digits
\* a step, after the value acc of the digits before them
RECURSIVE BFromDigits(_, _, _)
BFromDigits(str, i, acc) ==
  IF i > Len(str) \/ Len(acc) < 0 THEN acc
  ELSE IF i + 3 <= Len(str)
  THEN BFromDigits(str, i + 4,
         BAdd(BMulSmall(acc, 10000),
              BFromInt(DigitVal(str[i]) * 1000 + DigitVal(str[i + 1]) * 100
                       + DigitVal(str[i + 2]) * 10 + DigitVal(str[i + 3]))))
  ELSE BFromDigits(str, i + 1,
         BAdd(BMulSmall(acc, 10), BFromInt(DigitVal(str[i]))))

\* a decimal exponent, saturated far beyond the binary64 range
ExpCap == 100000
RECURSIVE IntFromDigits(_, _, _)
IntFromDigits(str, i, acc) ==
  IF i > Len(str) \/ acc < 0 THEN acc
  ELSE IntFromDigits(str, i + 1, Min(ExpCap, acc * 10 + DigitVal(str[i])))

\* sign * D * 10^k rounded to binary64 (D a natural number of nd digits)
DecimalToNumber(s, D, nd, k) ==
  IF D = <<>> THEN Zero(s)
  ELSE IF k > 400 THEN Inf(s)
  ELSE IF nd + k < -400 THEN Zero(s)
  ELSE RoundRat(s, IF k >= 0 THEN BMul(D, BPow5(k)) ELSE D,
                   IF k >= 0 THEN BOne ELSE BPow5(-k), k)

\* StringToNumber of ECMA-262 (Number(str)) for strings without white space
\* over the characters a display can hold: StrDecimalLiteral, else NaN
StringToNumber(str) ==
  IF str = <<>> THEN Zero(0)
  ELSE
    LET signed == str[1] = "-" \/ str[1] = "+"
        s      == IF str[1] = "-" THEN 1 ELSE 0
        body   == IF signed THEN Tail(str) ELSE str
        ei     == IF Includes(body, "e") THEN IndexOf(body, "e")
                  ELSE IndexOf(body, "E")
        mant   == IF ei = 0 THEN body ELSE SubSeq(body, 1, ei - 1)
        expo   == IF ei = 0 THEN <<>> ELSE From(body, ei + 1)
        di     == IndexOf(mant, ".")
        ip     == IF di = 0 THEN mant ELSE SubSeq(mant, 1, di - 1)
        fp     == IF di = 0 THEN <<>> ELSE From(mant, di + 1)
        esgn   == expo # <<>> /\ (expo[1] = "-" \/ expo[1] = "+")
        edig   == IF esgn THEN Tail(expo) ELSE expo
        ok     == /\ AllDigits(ip) /\ AllDigits(fp)
                  /\ Len(ip) + Len(fp) >= 1
                  /\ ei = 0 \/ (edig # <<>> /\ AllDigits(edig))
        ev     == IF ei = 0 THEN 0
                  ELSE IF expo[1] = "-" THEN -IntFromDigits(edig, 1, 0)
                  ELSE IntFromDigits(edig, 1, 0)
    IN  IF ~ok THEN NaN
        ELSE DecimalToNumber(s, BFromDigits(ip \o fp, 1, <<>>),
                             Len(ip) + Len(fp), ev - Len(fp))

(***************************************************************************)
(* Number to string (ECMA-262 Number::toString, toFixed, toPrecision,      *)
(* toExponential).                                                         *)
(***************************************************************************)
DigitStr(d) == DigitChars[d + 1]

\* the four decimal digits of 0 <= n < 10000
Digits4(n) == <<DigitStr(n \div 1000), DigitStr((n \div 100) % 10),
                DigitStr((n \div 10) % 10), DigitStr(n % 10)>>

RECURSIVE StripLeadingZeros(_)
StripLeadingZeros(str) ==
  IF Len(str) > 1 /\ str[1] = "0" THEN StripLeadingZeros(Tail(str)) ELSE str

RECURSIVE BDigitsPadded(_)
BDigitsPadded(n) ==
  IF n = <<>> THEN <<>>
  ELSE BDigitsPadded(BDivSmall(n, 10000)) \o Digits4(BModSmall(n, 10000))

\* the decimal numeral of the natural number n ("0" for 0)
BDigits(n) == IF n = <<>> THEN <<"0">> ELSE StripLeadingZeros(BDigitsPadded(n))

\* the decimal numeral of the non-negative integer n
IntDigits(n) == BDigits(BFromInt(n))

\* a lower bound for floor(log10(a)), at most 2 below it (a finite, > 0)
Log10Floor(a) ==
  LET L == BBitLen(a.m) + a.e - 1
  IN  IF L >= 0 THEN (L * 30102) \div 100000 ELSE (L * 30103) \div 100000 - 1

\* The shortest decimal digits that identify a (finite, > 0) among the
\* binary64 values, nearest to a: free-format digit generation over the
\* rounding interval of a.  State: r / s is the value still to print,
\* mp / s and mm / s the distances to the upper and lower neighbours' midpoints.
ShortestInit(a) ==
  LET p    == Max(a.e - (PrecBits - BBitLen(a.m)), MinExp)
      f    == BShl(a.m, a.e - p)
      x    == IF a.m = BOne /\ p > MinExp THEN 1 ELSE 0
  IN  IF p >= 0
      THEN [r |-> BShl(f, p + 1 + x), s |-> BFromInt(2 + 2 * x),
            mp |-> BPow2(p + x), mm |-> BPow2(p), even |-> ~BIsOdd(f)]
      ELSE [r |-> BShl(f, 1 + x), s |-> BPow2(1 + x - p),
            mp |-> BFromInt(1 + x), mm |-> BOne, even |-> ~BIsOdd(f)]

\* z with r / s, mp / s and mm / s divided by 10^k, where t = 10^|k|
ShortestScale(z, k, t) ==
  IF k >= 0 THEN [z EXCEPT !.s = BMul(@, t)]
  ELSE [z EXCEPT !.r = BMul(@, t), !.mp = BMul(@, t), !.mm = BMul(@, t)]

HighReached(z) ==
  IF z.even THEN BCmp(BAdd(z.r, z.mp), z.s) >= 0
  ELSE BCmp(BAdd(z.r, z.mp), z.s) > 0

LowReached(z) ==
  IF z.even THEN BCmp(z.r, z.mm) <= 0 ELSE BCmp(z.r, z.mm) < 0

\* raise k until the value's upper bound is below 10^k
RECURSIVE ShortestFixup(_, _)
ShortestFixup(z, k) ==
  IF HighReached(z) THEN ShortestFixup([z EXCEPT !.s = BMulSmall(@, 10)], k + 1)
  ELSE [z |-> z, n |-> k]

\* the next digit d of r / s, and the state after it
ShortestDigit(z, d) ==
  [z EXCEPT !.r = BSub(BMulSmall(z.r, 10), BMulSmall(z.s, d)),
            !.mp = BMulSmall(@, 10), !.mm = BMulSmall(@, 10)]

\* floor(10 * r / s), a digit as r < s
Quotient10(z) ==
  CHOOSE d \in 0..9 :
    /\ BCmp(BMulSmall(z.s, d), BMulSmall(z.r, 10)) <= 0
    /\ BCmp(BMulSmall(z.s, d + 1), BMulSmall(z.r, 10)) > 0

\* the digits after the digit d that led to the state z
RECURSIVE ShortestGen(_, _)
ShortestEnd(z, d, digits) ==
  IF ~LowReached(z) /\ ~HighReached(z)
  THEN ShortestGen(z, Append(digits, DigitStr(d)))
  ELSE IF LowReached(z) /\ ~HighReached(z) THEN Append(digits, DigitStr(d))
  ELSE IF ~LowReached(z) THEN Append(digits, DigitStr(d + 1))
  ELSE IF BCmp(BMulSmall(z.r, 2), z.s) < 0 THEN Append(digits, DigitStr(d))
  ELSE Append(digits, DigitStr(d + 1))

ShortestNext(z, d, digits) == ShortestEnd(ShortestDigit(z, d), d, digits)

ShortestGen(z, digits) == ShortestNext(z, Quotient10(z), digits)

\* "e+21", "e-7"
ExpSuffix(e) == <<"e", IF e >= 0 THEN "+" ELSE "-">> \o IntDigits(IF e >= 0 THEN e ELSE -e)

\* the numeral of 0.d1d2...dk * 10^n as Number::toString lays it out
ShortestString(ds, n) ==
  IF Len(ds) <= n /\ n <= 21 THEN ds \o Repeat("0", n - Len(ds))
  ELSE IF 0 < n /\ n <= 21 THEN SubSeq(ds, 1, n) \o <<".">> \o From(ds, n + 1)
  ELSE IF -6 < n /\ n <= 0 THEN <<"0", ".">> \o Repeat("0", -n) \o ds
  ELSE IF Len(ds) = 1 THEN ds \o ExpSuffix(n - 1)
  ELSE <<ds[1], ".">> \o Tail(ds) \o ExpSuffix(n - 1)

ShortestFrom(fx) == ShortestString(ShortestGen(fx.z, <<>>), fx.n)

\* the numeral of a: with the digits d1 .. dk, a = 0.d1d2...dk * 10^n
ShortestNumeral(a) ==
  LET k == Log10Floor(a)
  IN  ShortestFrom(
        ShortestFixup(ShortestScale(ShortestInit(a), k, BPow10(IF k >= 0 THEN k ELSE -k)), k))

\* Number::toString(a), radix 10
NumberToString(a) ==
  IF a.k = "NaN" THEN <<"N", "a", "N">>
  ELSE IF a.k = "Infinity" THEN
    (IF a.s = 1 THEN <<"-">> ELSE <<>>) \o <<"I", "n", "f", "i", "n", "i", "t", "y">>
  ELSE IF a.m = <<>> THEN <<"0">>
  ELSE (IF a.s = 1 THEN <<"-">> ELSE <<>>) \o ShortestNumeral(Abs(a))

\* floor(N / D + 1 / 2)
BDivHalfUp(N, D) == BDivMod(BAdd(BMulSmall(N, 2), D), BMulSmall(D, 2)).q

\* the integer nearest to a * 10^j, the larger one of two (a finite, >= 0)
RoundHalfUp(a, j) ==
  IF a.m = <<>> THEN <<>>
  ELSE BDivHalfUp(
         BShl(IF j >= 0 THEN BMul(a.m, BPow5(j)) ELSE a.m, Max(a.e + j, 0)),
         BShl(IF j >= 0 THEN BOne ELSE BPow5(-j), Max(-(a.e + j), 0)))

\* the digits m of n, and e, with 10^(p-1) <= n < 10^p and n * 10^(e-p+1)
\* nearest to a, the larger one of two (a finite, > 0): e is raised until
\* n < 10^p
RECURSIVE SigRoundFrom(_, _, _)
SigRoundEnd(a, p, e, n) ==
  IF BCmp(n, BPow10(p)) >= 0 THEN SigRoundFrom(a, p, e + 1)
  ELSE [m |-> BDigits(n), e |-> e]

SigRoundFrom(a, p, e) == SigRoundEnd(a, p, e, RoundHalfUp(a, p - 1 - e))

SigRound(a, p) == SigRoundFrom(a, p, Log10Floor(a))

SignStr(a) == IF a.s = 1 /\ a.m # <<>> THEN <<"-">> ELSE <<>>

\* the numeral of the integer with digits m divided by 10^f  (f > 0)
FixedString(m, f) ==
  IF Len(m) <= f THEN <<"0", ".">> \o Repeat("0", f - Len(m)) \o m
  ELSE SubSeq(m, 1, Len(m) - f) \o <<".">> \o From(m, Len(m) - f + 1)

\* Number.prototype.toFixed(f) for finite |a| < 10^21 and f > 0
ToFixed(a, f) == SignStr(a) \o FixedString(BDigits(RoundHalfUp(Abs(a), f)), f)

\* the numeral of the p digits sr.m times 10^(sr.e-p+1) as toPrecision lays
\* it out
PrecisionString(sr, p) ==
  IF sr.e < -6 \/ sr.e >= p
  THEN (IF p = 1 THEN sr.m ELSE <<sr.m[1], ".">> \o Tail(sr.m)) \o ExpSuffix(sr.e)
  ELSE IF sr.e = p - 1 THEN sr.m
  ELSE IF sr.e >= 0
  THEN SubSeq(sr.m, 1, sr.e + 1) \o <<".">> \o From(sr.m, sr.e + 2)
  ELSE <<"0", ".">> \o Repeat("0", -(sr.e + 1)) \o sr.m

\* Number.prototype.toPrecision(p) for finite a
ToPrecision(a, p) ==
  IF a.m = <<>> THEN PrecisionString([m |-> Repeat("0", p), e |-> 0], p)
  ELSE SignStr(a) \o PrecisionString(SigRound(Abs(a), p), p)

\* the numeral of the f + 1 digits sr.m times 10^(sr.e-f) as toExponential
\* lays it out
ExponentialString(sr, f) ==
  (IF f = 0 THEN sr.m ELSE <<sr.m[1], ".">> \o Tail(sr.m)) \o ExpSuffix(sr.e)

\* Number.prototype.toExponential(f) for finite a
ToExponential(a, f) ==
  IF a.m = <<>> THEN ExponentialString([m |-> Repeat("0", f + 1), e |-> 0], f)
  ELSE SignStr(a) \o ExponentialString(SigRound(Abs(a), f + 1), f)

(***************************************************************************)
(* String.prototype.replace with the three regular expressions used.       *)
(***************************************************************************)
AllZeros(str) == \A i \in 1..Len(str) : str[i] = "0"

\* the start of the leftmost match of a pattern anchored by ok(i), or 0
FirstIndex(str, ok(_)) ==
  IF \E i \in 1..Len(str) : ok(i)
  THEN CHOOSE i \in 1..Len(str) : ok(i) /\ \A j \in 1..(i - 1) : ~ok(j)
  ELSE 0

\* str.replace(/\.0+$/, "")
ReplaceDotZeros(str) ==
  LET ok(i) == str[i] = "." /\ i < Len(str) /\ AllZeros(From(str, i + 1))
      i0    == FirstIndex(str, ok)
  IN  IF i0 = 0 THEN str ELSE SubSeq(str, 1, i0 - 1)

RECURSIVE StripTrailingZeros(_)
StripTrailingZeros(str) ==
  IF str # <<>> /\ str[Len(str)] = "0" THEN StripTrailingZeros(DropLast(str))
  ELSE str

\* str.replace(/(\.[0-9]*?)0+$/, "$1")  (and the same with \d)
ReplaceTrailingZeros(str) ==
  LET ok(i) == str[i] = "." /\ i < Len(str) /\ AllDigits(From(str, i + 1))
               /\ str[Len(str)] = "0"
      i0    == FirstIndex(str, ok)
  IN  IF i0 = 0 THEN str
      ELSE SubSeq(str, 1, i0) \o StripTrailingZeros(From(str, i0 + 1))

\* the end of the run of "0" that starts at i
RECURSIVE ZeroRunEnd(_, _)
ZeroRunEnd(str, i) ==
  IF i < Len(str) /\ str[i + 1] = "0" THEN ZeroRunEnd(str, i + 1) ELSE i

\* str.replace(/0+e/, "e")
ReplaceZerosE(str) ==
  LET ok(i) == str[i] = "0" /\ ZeroRunEnd(str, i) < Len(str)
               /\ str[ZeroRunEnd(str, i) + 1] = "e"
      i0    == FirstIndex(str, ok)
  IN  IF i0 = 0 THEN str
      ELSE SubSeq(str, 1, i0 - 1) \o From(str, ZeroRunEnd(str, i0) + 1)

(***************************************************************************)
(* src/app/page.tsx: the pure helpers.                                     *)
(***************************************************************************)
Error == <<"E", "r", "r", "o", "r">>

\* the literals 1e12 = 244140625 * 2^12, 1e-9 (the binary64 value
\* 4835703278458517 * 2^-82), 100 = 25 * 2^2 and 18
Num1e12 == Fin(0, <<19025, 7450>>, 12)
Num1eNeg9 == Fin(0, <<22165, 20557, 14383, 137>>, -82)
Num100 == Fin(0, <<25>>, 2)
MaxDisplayLen == 18

\* Number.isInteger
IsInteger(a) == a.k = "num" /\ (a.m = <<>> \/ a.e >= 0)

\* s.replace(/\.0+$/, "").replace(/(\.[0-9]*?)0+$/, "$1")
TrimZeros(s) == ReplaceTrailingZeros(ReplaceDotZeros(s))

\* lines 26-28: the replaces only when s includes "."
TrimFraction(s) == IF Includes(s, ".") THEN TrimZeros(s) ELSE s

formatNumber(n) ==
  IF ~IsFinite(n) THEN Error
  ELSE IF ~IsZero(n) /\ (NumGeq(Abs(n), Num1e12) \/ NumLt(Abs(n), Num1eNeg9))
  THEN TrimZeros(ToPrecision(n, 10))
  ELSE TrimFraction(NumberToString(n))

Ops == {"+", "-", "*", "/"}

\* compute and safeEval; "-" "*" "/" stand for the source's minus, times
\* and division signs
compute(a, b, op) ==
  CASE op = "+" -> NumAdd(a, b)
    [] op = "-" -> NumSub(a, b)
    [] op = "*" -> NumMul(a, b)
    [] op = "/" -> IF IsZero(b) THEN NaN ELSE NumDiv(a, b)

isDisplayError(str) == str = Error

(***************************************************************************)
(* src/unnamed/part_000: the pure helpers.                                 *)
(***************************************************************************)
formatNumber_p0(n) ==
  IF ~IsFinite(n) THEN Error
  ELSE IF NumGeq(Abs(n), Num1e12) THEN ReplaceZerosE(ToExponential(n, 6))
  ELSE TrimZeros(IF IsInteger(n) THEN NumberToString(n) ELSE ToFixed(n, 12))

safeEval(a, b, op) ==
  CASE op = "+" -> NumAdd(a, b)
    [] op = "-" -> NumSub(a, b)
    [] op = "*" -> NumMul(a, b)
    [] op = "/" -> IF IsZero(b) THEN NaN ELSE NumDiv(a, b)

(***************************************************************************)
(* src/app/page.tsx: the state record and the updater each handler hands   *)
(* to setState.                                                            *)
(***************************************************************************)
initialState ==
  [display |-> <<"0">>, prev |-> null, op |-> "null",
   waitingForNext |-> FALSE, lastKey |-> "null"]

\* clearEntry as it would be if it did not await a fresh operand
clearEntry_keepsTyping(s) ==
  [s EXCEPT !.display = <<"0">>, !.lastKey = "clear"]

clearEntry(s) ==
  [s EXCEPT !.display = <<"0">>, !.waitingForNext = TRUE, !.lastKey = "clear"]

\* inputDigit as it would be with the length guard one character short
inputDigit_sliceShort(s, d) ==
  IF isDisplayError(s.display) THEN initialState
  ELSE IF s.waitingForNext
  THEN [s EXCEPT !.display = <<d>>, !.waitingForNext = FALSE,
                 !.lastKey = "digit"]
  ELSE LET next == IF s.display = <<"0">> THEN <<d>> ELSE Append(s.display, d)
       IN  [s EXCEPT !.display = SliceTo(next, MaxDisplayLen - 1),
                     !.lastKey = "digit"]

inputDigit(s, d) ==
  IF isDisplayError(s.display) THEN initialState
  ELSE IF s.waitingForNext
  THEN [s EXCEPT !.display = <<d>>, !.waitingForNext = FALSE,
                 !.lastKey = "digit"]
  ELSE LET next == IF s.display = <<"0">> THEN <<d>> ELSE Append(s.display, d)
       IN  [s EXCEPT !.display = SliceTo(next, MaxDisplayLen),
                     !.lastKey = "digit"]

inputDot(s) ==
  IF isDisplayError(s.display) THEN initialState
  ELSE IF s.waitingForNext
  THEN [s EXCEPT !.display = <<"0", ".">>, !.waitingForNext = FALSE,
                 !.lastKey = "dot"]
  ELSE IF Includes(s.display, ".") THEN [s EXCEPT !.lastKey = "dot"]
  ELSE [s EXCEPT !.display = Append(s.display, "."), !.lastKey = "dot"]

\* toggleSign from const cur = Number(s.display) on
toggleSign_cur(s, cur) ==
  IF ~IsFinite(cur) THEN [s EXCEPT !.display = Error, !.lastKey = "sign"]
  ELSE IF IsZero(cur) THEN [s EXCEPT !.lastKey = "sign"]
  ELSE [s EXCEPT !.display = formatNumber(Neg(cur)), !.lastKey = "sign"]

toggleSign(s) ==
  IF isDisplayError(s.display) THEN initialState
  ELSE toggleSign_cur(s, StringToNumber(s.display))

\* percent_cur as it would be if percent ended the wait for an operand
percent_cur_clearsWaiting(s, cur) ==
  IF ~IsFinite(cur) THEN [s EXCEPT !.display = Error, !.lastKey = "percent"]
  ELSE [s EXCEPT !.display = formatNumber(NumDiv(cur, Num100)),
                 !.waitingForNext = FALSE, !.lastKey = "percent"]

\* percent from const cur = Number(s.display) on
percent_cur(s, cur) ==
  IF ~IsFinite(cur) THEN [s EXCEPT !.display = Error, !.lastKey = "percent"]
  ELSE [s EXCEPT !.display = formatNumber(NumDiv(cur, Num100)),
                 !.lastKey = "percent"]

percent(s) ==
  IF isDisplayError(s.display) THEN initialState
  ELSE percent_cur(s, StringToNumber(s.display))

backspace(s) ==
  IF isDisplayError(s.display) THEN initialState
  ELSE IF s.waitingForNext THEN [s EXCEPT !.lastKey = "back"]
  ELSE LET v == s.display
       IN  IF Len(v) <= 1 \/ (Len(v) = 2 /\ v[1] = "-")
           THEN [s EXCEPT !.display = <<"0">>, !.lastKey = "back"]
           ELSE [s EXCEPT !.display = DropLast(v), !.lastKey = "back"]

\* ErrorState as it would be if it kept the accumulator
ErrorState_keepsPrev(s, key) ==
  [s EXCEPT !.display = Error, !.op = "null", !.waitingForNext = TRUE,
            !.lastKey = key]

\* the state both setOperation and equals return on a non-finite value
ErrorState(s, key) ==
  [s EXCEPT !.display = Error, !.prev = null, !.op = "null",
            !.waitingForNext = TRUE, !.lastKey = key]

\* setOperation and equals from const out = compute(..) on: op and key are
\* the op and lastKey written
Computed(s, out, op, key) ==
  IF ~IsFinite(out) THEN ErrorState(s, key)
  ELSE [s EXCEPT !.display = formatNumber(out), !.prev = out, !.op = op,
                 !.waitingForNext = TRUE, !.lastKey = key]

\* setOperation_input as it would be if an operator never evaluated the
\* pending operation
setOperation_input_noChain(s, op, input) ==
  IF ~IsFinite(input) THEN ErrorState(s, "op")
  ELSE IF s.prev = null
  THEN [s EXCEPT !.prev = input, !.op = op, !.waitingForNext = TRUE,
                 !.lastKey = "op"]
  ELSE [s EXCEPT !.op = op, !.waitingForNext = TRUE, !.lastKey = "op"]

\* setOperation from const input = Number(s.display) on
setOperation_input(s, op, input) ==
  IF ~IsFinite(input) THEN ErrorState(s, "op")
  ELSE IF s.prev = null
  THEN [s EXCEPT !.prev = input, !.op = op, !.waitingForNext = TRUE,
                 !.lastKey = "op"]
  ELSE IF s.op # "null" /\ ~s.waitingForNext
  THEN Computed(s, compute(s.prev, input, s.op), op, "op")
  ELSE [s EXCEPT !.op = op, !.waitingForNext = TRUE, !.lastKey = "op"]

\* setOperation as it would be without its guard on "Error"
setOperation_noGuard(s, op) ==
  setOperation_input(s, op, StringToNumber(s.display))

setOperation(s, op) ==
  IF isDisplayError(s.display) THEN initialState
  ELSE setOperation_input(s, op, StringToNumber(s.display))

\* equals_input as it would be if equals kept the operator pending
equals_input_keepsOp(s, input) ==
  IF ~IsFinite(input) THEN ErrorState(s, "equals")
  ELSE Computed(s, compute(s.prev, IF s.waitingForNext THEN s.prev ELSE input,
                           s.op),
                s.op, "equals")

\* equals from const input = Number(s.display) on
equals_input(s, input) ==
  IF ~IsFinite(input) THEN ErrorState(s, "equals")
  ELSE Computed(s, compute(s.prev, IF s.waitingForNext THEN s.prev ELSE input,
                           s.op),
                "null", "equals")

\* equals as it would be if it did nothing while an operand is awaited
equals_needsOperand(s) ==
  IF isDisplayError(s.display) THEN initialState
  ELSE IF s.prev = null \/ s.op = "null" \/ s.waitingForNext
  THEN [s EXCEPT !.lastKey = "equals"]
  ELSE equals_input(s, StringToNumber(s.display))

equals(s) ==
  IF isDisplayError(s.display) THEN initialState
  ELSE IF s.prev = null \/ s.op = "null" THEN [s EXCEPT !.lastKey = "equals"]
  ELSE equals_input(s, StringToNumber(s.display))

(***************************************************************************)
(* src/unnamed/part_000: the five state cells, as one record c, and what   *)
(* each handler sets them to.                                              *)
(***************************************************************************)
initialCells ==
  [display |-> <<"0">>, acc |-> null, pendingOp |-> "null",
   isTyping |-> FALSE, justEvaluated |-> FALSE]

clearAll_p0(c) == initialCells

inputDigit_p0(c, d) ==
  IF c.display = Error THEN [c EXCEPT !.display = <<d>>]
  ELSE IF ~c.isTyping \/ c.justEvaluated
  THEN [c EXCEPT !.display = <<d>>, !.isTyping = TRUE,
                 !.justEvaluated = FALSE]
  ELSE IF c.display = <<"0">> THEN [c EXCEPT !.display = <<d>>]
  ELSE IF Len(c.display) >= MaxDisplayLen THEN c
  ELSE [c EXCEPT !.display = Append(c.display, d)]

inputDot_p0(c) ==
  IF c.display = Error THEN [c EXCEPT !.display = <<"0", ".">>]
  ELSE IF ~c.isTyping \/ c.justEvaluated
  THEN [c EXCEPT !.display = <<"0", ".">>, !.isTyping = TRUE,
                 !.justEvaluated = FALSE]
  ELSE IF Includes(c.display, ".") THEN c
  ELSE [c EXCEPT !.display = Append(c.display, ".")]

backspace_p0(c) ==
  IF ~c.isTyping \/ c.justEvaluated THEN c
  ELSE IF c.display = Error THEN [c EXCEPT !.display = <<"0">>]
  ELSE IF Len(c.display) <= 1 THEN [c EXCEPT !.display = <<"0">>]
  ELSE LET next == DropLast(c.display)
       IN  [c EXCEPT !.display = IF next = <<"-">> THEN <<"0">> ELSE next]

\* the updater toggleSign hands to setDisplay, from const n = Number(prev) on
toggleSign_p0_n(prev, n) ==
  IF ~IsFinite(n) THEN prev ELSE formatNumber_p0(Neg(n))

toggleSign_p0(c) ==
  [c EXCEPT !.display = IF @ = Error THEN @
                        ELSE toggleSign_p0_n(@, StringToNumber(@)),
            !.justEvaluated = FALSE]

\* the updater percent hands to setDisplay, from const n = Number(prev) on
percent_p0_n(prev, n) ==
  IF ~IsFinite(n) THEN prev ELSE formatNumber_p0(NumDiv(n, Num100))

percent_p0(c) ==
  [c EXCEPT !.display = IF @ = Error THEN @
                        ELSE percent_p0_n(@, StringToNumber(@)),
            !.isTyping = FALSE, !.justEvaluated = FALSE]

\* what applyOp and equals set on a non-finite value
ErrorCells ==
  [display |-> Error, acc |-> null, pendingOp |-> "null",
   isTyping |-> FALSE, justEvaluated |-> TRUE]

\* applyOp from const res = safeEval(..) on
applyOp_res(c, op, res) ==
  IF ~IsFinite(res) THEN ErrorCells
  ELSE [c EXCEPT !.acc = res, !.display = formatNumber_p0(res),
                 !.pendingOp = op, !.isTyping = FALSE, !.justEvaluated = TRUE]

\* applyOp from const cur = Number(display) on
applyOp_cur(c, op, cur) ==
  IF ~IsFinite(cur) THEN clearAll_p0(c)
  ELSE IF c.acc = null
  THEN [c EXCEPT !.acc = cur, !.pendingOp = op, !.isTyping = FALSE,
                 !.justEvaluated = FALSE]
  ELSE IF c.pendingOp # "null" /\ (c.isTyping \/ c.justEvaluated)
  THEN applyOp_res(c, op, safeEval(c.acc, cur, c.pendingOp))
  ELSE [c EXCEPT !.pendingOp = op, !.isTyping = FALSE,
                 !.justEvaluated = FALSE]

applyOp(c, op) == applyOp_cur(c, op, StringToNumber(c.display))

\* equals_p0_res as it would be if equals kept the result as accumulator
equals_p0_res_keepsAcc(c, res) ==
  IF ~IsFinite(res) THEN ErrorCells
  ELSE [c EXCEPT !.display = formatNumber_p0(res), !.acc = res,
                 !.pendingOp = "null", !.isTyping = FALSE,
                 !.justEvaluated = TRUE]

\* equals_p0_res as it would be if equals left the operator pending
equals_p0_res_keepsOp(c, res) ==
  IF ~IsFinite(res) THEN ErrorCells
  ELSE [c EXCEPT !.display = formatNumber_p0(res), !.acc = null,
                 !.isTyping = FALSE, !.justEvaluated = TRUE]

\* equals from const res = safeEval(..) on
equals_p0_res(c, res) ==
  IF ~IsFinite(res) THEN ErrorCells
  ELSE [c EXCEPT !.display = formatNumber_p0(res), !.acc = null,
                 !.pendingOp = "null", !.isTyping = FALSE,
                 !.justEvaluated = TRUE]

\* equals_p0_cur as it would be if equals with nothing pending set no cell
equals_p0_cur_noFlags(c, cur) ==
  IF c.acc = null \/ c.pendingOp = "null" THEN c
  ELSE IF ~IsFinite(cur) THEN ErrorCells
  ELSE equals_p0_res(c, safeEval(c.acc, cur, c.pendingOp))

\* equals from const cur = Number(display) on
equals_p0_cur(c, cur) ==
  IF c.acc = null \/ c.pendingOp = "null"
  THEN [c EXCEPT !.justEvaluated = TRUE, !.isTyping = FALSE]
  ELSE IF ~IsFinite(cur) THEN ErrorCells
  ELSE equals_p0_res(c, safeEval(c.acc, cur, c.pendingOp))

equals_p0(c) == equals_p0_cur(c, StringToNumber(c.display))

(***************************************************************************)
(* The keys and buttons.  A button calls its handler; the keyboard         *)
(* listener calls the same handlers (the toggle-sign and clear-entry       *)
(* buttons have no key).                                                   *)
(***************************************************************************)
DigitKeys == {"0", "1"}

\* clearAll as it would be if it reset the entry only
clearAll_keepsPending(s) == [initialState EXCEPT !.prev = s.prev, !.op = s.op]

clearAll(s) == initialState

\* the state after n presses of the key k, "%" or a digit, in state s
RECURSIVE pressTimes(_, _, _)
pressTimes(s, k, n) ==
  IF n = 0 THEN s
  ELSE pressTimes(IF k = "%" THEN percent(s) ELSE inputDigit(s, k), k, n - 1)

RECURSIVE pressTimes_p0(_, _, _)
pressTimes_p0(c, k, n) ==
  IF n = 0 THEN c
  ELSE pressTimes_p0(IF k = "%" THEN percent_p0(c) ELSE inputDigit_p0(c, k),
                     k, n - 1)

\* the state after the digit and "." keys ks were pressed in state s
RECURSIVE typeKeys(_, _)
typeKeys(s, ks) ==
  IF ks = <<>> THEN s
  ELSE typeKeys(IF Head(ks) = "." THEN inputDot(s)
                ELSE inputDigit(s, Head(ks)),
                Tail(ks))

RECURSIVE typeKeys_p0(_, _)
typeKeys_p0(c, ks) ==
  IF ks = <<>> THEN c
  ELSE typeKeys_p0(IF Head(ks) = "." THEN inputDot_p0(c)
                   ELSE inputDigit_p0(c, Head(ks)),
                   Tail(ks))

(***************************************************************************)
(* The state machine.  app is the page that is mounted; state is           *)
(* page.tsx's CalcState; display .. justEvaluated are part_000's cells.    *)
(* Four variables observe the run and are read by no handler: budget is    *)
(* the number of keys the run may still press before the next all-clear,   *)
(* key is the key pressed last, onError tells whether the display was      *)
(* "Error" when that key was pressed, and log is the keys pressed since    *)
(* the state was last initial while they spell operands, operators and     *)
(* equals in turn, and Off otherwise.                                      *)
(***************************************************************************)
VARIABLES app, state, display, acc, pendingOp, isTyping, justEvaluated,
          budget, key, onError, log

vars == <<app, state, display, acc, pendingOp, isTyping, justEvaluated,
          budget, key, onError, log>>

MaxKeys == 6
MaxKeysAfterStart == 2
DigitsTyped == 16
MaxKeysAfterDigits == 3
MaxKeysAfterOperands == 4

cells ==
  [display |-> display, acc |-> acc, pendingOp |-> pendingOp,
   isTyping |-> isTyping, justEvaluated |-> justEvaluated]

Off == <<"off">>

IsOperandKey(k) == IsDigit(k) \/ k = "."

\* the operand being typed at the end of the log l
RECURSIVE LastOperand(_)
LastOperand(l) ==
  IF l = <<>> \/ ~IsOperandKey(l[Len(l)]) THEN <<>>
  ELSE Append(LastOperand(DropLast(l)), l[Len(l)])

Track(l, k) ==
  IF l = Off THEN Off
  ELSE IF IsDigit(k) THEN Append(l, k)
  ELSE IF k = "." /\ ~Includes(LastOperand(l), ".") THEN Append(l, k)
  ELSE IF k \in Ops /\ l # <<>>
          /\ (IsOperandKey(l[Len(l)]) \/ l[Len(l)] = "=") THEN Append(l, k)
  ELSE IF k = "=" /\ l # <<>> /\ (\E i \in 1..Len(l) : l[i] \in Ops)
          /\ (IsOperandKey(l[Len(l)]) \/ l[Len(l)] \in Ops \/ l[Len(l)] = "=")
       THEN Append(l, k)
  ELSE Off

\* the five cells hold c
CellsAre(c) ==
  /\ display = c.display
  /\ acc = c.acc
  /\ pendingOp = c.pendingOp
  /\ isTyping = c.isTyping
  /\ justEvaluated = c.justEvaluated

Init ==
  /\ app \in {"page", "part_000"}
  /\ state = initialState
  /\ CellsAre(initialCells)
  /\ budget = MaxKeys
  /\ key = "none"
  /\ onError = FALSE
  /\ log = <<>>

\* the state after the keys + . 1 % % % from the initial state
StartState ==
  pressTimes(inputDigit(inputDot(setOperation(initialState, "+")), "1"),
             "%", 3)

StartCells ==
  pressTimes_p0(inputDigit_p0(inputDot_p0(applyOp(initialCells, "+")), "1"),
                "%", 3)

InitAfterKeys ==
  /\ app \in {"page", "part_000"}
  /\ state = IF app = "page" THEN StartState ELSE initialState
  /\ CellsAre(IF app = "part_000" THEN StartCells ELSE initialCells)
  /\ budget = MaxKeysAfterStart
  /\ key = "%"
  /\ onError = FALSE
  /\ log = Off

\* the page after the digit 1 was pressed DigitsTyped times from the initial
\* state
InitAfterDigits ==
  /\ app \in {"page", "part_000"}
  /\ state = IF app = "page" THEN pressTimes(initialState, "1", DigitsTyped)
             ELSE initialState
  /\ CellsAre(IF app = "part_000"
              THEN pressTimes_p0(initialCells, "1", DigitsTyped)
              ELSE initialCells)
  /\ budget = MaxKeysAfterDigits
  /\ key = "1"
  /\ onError = FALSE
  /\ log = Repeat("1", DigitsTyped)

\* the page after the keys . 1 + . 2 = or . 1 / 1 1 = were pressed from the
\* initial state
InitAfterOperands ==
  \E st \in {<<"+", <<".", "2">> >>, <<"/", <<"1", "1">> >>} :
    /\ app \in {"page", "part_000"}
    /\ state =
         IF app = "page"
         THEN equals(typeKeys(setOperation(typeKeys(initialState, <<".", "1">>),
                                           st[1]),
                              st[2]))
         ELSE initialState
    /\ CellsAre(IF app = "part_000"
                THEN equals_p0(typeKeys_p0(
                                 applyOp(typeKeys_p0(initialCells, <<".", "1">>),
                                         st[1]),
                                 st[2]))
                ELSE initialCells)
    /\ budget = MaxKeysAfterOperands
    /\ key = "="
    /\ onError = FALSE
    /\ log = <<".", "1", st[1]>> \o st[2] \o <<"=">>

\* page.tsx takes the step to s on key k
PageStep(s, k) ==
  /\ app = "page"
  /\ budget > 0
  /\ state' = s
  /\ budget' = budget - 1
  /\ key' = k
  /\ onError' = isDisplayError(state.display)
  /\ log' = Track(log, k)
  /\ UNCHANGED <<app, display, acc, pendingOp, isTyping, justEvaluated>>

\* part_000 takes the step to the cells c on key k
CellsStep(c, k) ==
  /\ app = "part_000"
  /\ budget > 0
  /\ display' = c.display
  /\ acc' = c.acc
  /\ pendingOp' = c.pendingOp
  /\ isTyping' = c.isTyping
  /\ justEvaluated' = c.justEvaluated
  /\ budget' = budget - 1
  /\ key' = k
  /\ onError' = (display = Error)
  /\ log' = Track(log, k)
  /\ UNCHANGED <<app, state>>

ClearAll ==
  /\ app = "page"
  /\ state' = clearAll(state)
  /\ budget' = MaxKeys
  /\ key' = "Escape"
  /\ onError' = isDisplayError(state.display)
  /\ log' = <<>>
  /\ UNCHANGED <<app, display, acc, pendingOp, isTyping, justEvaluated>>

ClearEntry == PageStep(clearEntry(state), "CE")
InputDigit == \E d \in DigitKeys : PageStep(inputDigit(state, d), d)
InputDot == PageStep(inputDot(state), ".")
ToggleSign == PageStep(toggleSign(state), "sign")
Percent == PageStep(percent(state), "%")
Backspace == PageStep(backspace(state), "Backspace")
SetOperation == \E op \in Ops : PageStep(setOperation(state, op), op)
Equals == PageStep(equals(state), "=")

ClearAll_p0 ==
  /\ app = "part_000"
  /\ LET c == clearAll_p0(cells)
     IN  /\ display' = c.display
         /\ acc' = c.acc
         /\ pendingOp' = c.pendingOp
         /\ isTyping' = c.isTyping
         /\ justEvaluated' = c.justEvaluated
  /\ budget' = MaxKeys
  /\ key' = "Escape"
  /\ onError' = (display = Error)
  /\ log' = <<>>
  /\ UNCHANGED <<app, state>>

InputDigit_p0 == \E d \in DigitKeys : CellsStep(inputDigit_p0(cells, d), d)
InputDot_p0 == CellsStep(inputDot_p0(cells), ".")
Backspace_p0 == CellsStep(backspace_p0(cells), "Backspace")
ToggleSign_p0 == CellsStep(toggleSign_p0(cells), "sign")
Percent_p0 == CellsStep(percent_p0(cells), "%")
ApplyOp == \E op \in Ops : CellsStep(applyOp(cells, op), op)
Equals_p0 == CellsStep(equals_p0(cells), "=")

Next ==
  \/ ClearAll \/ ClearEntry \/ InputDigit \/ InputDot \/ ToggleSign
  \/ Percent \/ Backspace \/ SetOperation \/ Equals
  \/ ClearAll_p0 \/ InputDigit_p0 \/ InputDot_p0 \/ Backspace_p0
  \/ ToggleSign_p0 \/ Percent_p0 \/ ApplyOp \/ Equals_p0

Spec == Init /\ [][Next]_vars

SpecAfterKeys == InitAfterKeys /\ [][Next]_vars

SpecAfterDigits == InitAfterDigits /\ [][Next]_vars

SpecAfterOperands == InitAfterOperands /\ [][Next]_vars

(***************************************************************************)
(* The spec's state in terms of the mounted page's fields.  part_000 has   *)
(* no flag for "awaiting operand": its handlers start a fresh number when  *)
(* !isTyping || justEvaluated.                                             *)
(***************************************************************************)
Display == IF app = "page" THEN state.display ELSE display
Accumulator == IF app = "page" THEN state.prev ELSE acc
PendingOperator == IF app = "page" THEN state.op ELSE pendingOp
AwaitingOperand ==
  IF app = "page" THEN state.waitingForNext ELSE ~isTyping \/ justEvaluated

\* the spec's Format and Evaluate: the mounted page's own functions
Format(n) == IF app = "page" THEN formatNumber(n) ELSE formatNumber_p0(n)
Evaluate(a, b, op) ==
  IF app = "page" THEN compute(a, b, op) ELSE safeEval(a, b, op)

\* the number the operand keys l[i..j] enter
Entered(l, i, j) == StringToNumber(<<"0">> \o SubSeq(l, i, j))

\* where the log l has its operator keys, and its "=" keys
OpsAt(l) == {i \in 1..Len(l) : l[i] \in Ops}
EqualsAt(l) == {i \in 1..Len(l) : l[i] = "="}

\* C1: right after ClearAll the state is exactly the initial state: display
\* "0", accumulator absent, pendingOperator absent, awaitingOperand false
\* (in part_000: isTyping and justEvaluated false), whatever it was before.
C1_ClearAllYieldsInitial ==
  key = "Escape" =>
    /\ state = [display |-> <<"0">>, prev |-> null, op |-> "null",
                waitingForNext |-> FALSE, lastKey |-> "null"]
    /\ display = <<"0">> /\ acc = null /\ pendingOp = "null"
    /\ ~isTyping /\ ~justEvaluated

C1_Witness == key = "Escape" /\ budget = MaxKeys

\* C2: in every reachable state the display has at most 18 characters.
C2_DisplayAtMost18 == Len(Display) <= 18

IsNumeral(str) ==
  LET body == IF str # <<>> /\ str[1] = "-" THEN Tail(str) ELSE str
  IN  /\ \A i \in 1..Len(body) : IsDigit(body[i]) \/ body[i] = "."
      /\ \E i \in 1..Len(body) : IsDigit(body[i])
      /\ Cardinality({i \in 1..Len(body) : body[i] = "."}) <= 1

\* C3: in every reachable state the display is "Error" or a decimal numeral:
\* an optional leading '-', at least one digit, at most one '.', and no other
\* character.
C3_DisplayIsNumeral == Display = Error \/ IsNumeral(Display)

\* C4: in no reachable state is the display a minus sign followed only by
\* zeros and an optional decimal point.
C4_NoNegativeZero ==
  ~(/\ Len(Display) >= 2
    /\ Display[1] = "-"
    /\ \A i \in 2..Len(Display) : Display[i] = "0" \/ Display[i] = "."
    /\ IsNumeral(Display))

\* C5: in every reachable state whose display is "Error" the accumulator and
\* the pendingOperator are absent.
C5_ErrorClearsPending ==
  Display = Error => Accumulator = null /\ PendingOperator = "null"

\* the keys C6 names
ErrorKeys == DigitKeys \cup Ops \cup {"=", "%", "sign"}

C7_DigitOnErrorStartsFresh ==
  (onError /\ key \in DigitKeys) =>
    /\ Display = <<key>>
    /\ Accumulator = null
    /\ PendingOperator = "null"
    /\ ~AwaitingOperand

\* the result of a op b in the log l spelling a op b and n times "=", op at i
Result(l, i, n) ==
  Evaluate(Entered(l, 1, i - 1), Entered(l, i + 1, Len(l) - n), l[i])

\* the log l spells a op b and n times "=", op at i
IsBinary(l, i, n) ==
  /\ OpsAt(l) = {i}
  /\ Len(l) > i + n
  /\ EqualsAt(l) = (Len(l) - n + 1)..Len(l)

Result1(l, i, j) ==
  Evaluate(Entered(l, 1, i - 1), Entered(l, i + 1, j - 1), l[i])

\* C9: from the initial state, with a op1 b finite, a op1 b op2 shows
\* Format(a op1 b) with that value as accumulator and op2 pending, and then
\* c = shows Format((a op1 b) op2 c).
C9_LeftToRight ==
  \A i, j \in 1..Len(log) :
    (i < j /\ OpsAt(log) = {i, j} /\ IsFinite(Result1(log, i, j))) =>
      /\ Len(log) = j =>
           /\ Display = Format(Result1(log, i, j))
           /\ Accumulator = Result1(log, i, j)
           /\ PendingOperator = log[j]
      /\ (Len(log) > j + 1 /\ EqualsAt(log) = {Len(log)}) =>
           Display = Format(Evaluate(Result1(log, i, j),
                                     Entered(log, j + 1, Len(log) - 1), log[j]))

C9_Witness ==
  log = <<"1", "+", "1", "*", "0", "=">> /\ Display = <<"0">>

\* C10: from the initial state a / 0 followed by = or by an operator shows
\* "Error" with the accumulator and the pending operator absent and an
\* operand awaited.
C10_DivisionByZero ==
  \A i \in 1..Len(log) :
    (/\ Len(log) = i + 2
     /\ OpsAt(log) \ {i + 2} = {i}
     /\ log[i] = "/"
     /\ log[i + 1] = "0"
     /\ (log[i + 2] = "=" \/ log[i + 2] \in Ops))
      => /\ Display = Error
         /\ Accumulator = null
         /\ PendingOperator = "null"
         /\ AwaitingOperand

C10_Witness == log = <<"1", "/", "0", "=">> /\ Display = Error

\* C11: from the initial state a op = , with no second operand typed, shows
\* Format(Evaluate(a, a, op)), or "Error" when that value is not finite.
C11_ImmediateEquals ==
  \A i \in 1..Len(log) :
    (Len(log) = i + 1 /\ OpsAt(log) = {i} /\ log[i + 1] = "=") =>
      Display = IF IsFinite(Evaluate(Entered(log, 1, i - 1),
                                     Entered(log, 1, i - 1), log[i]))
                THEN Format(Evaluate(Entered(log, 1, i - 1),
                                     Entered(log, 1, i - 1), log[i]))
                ELSE Error

C11_Witness == log = <<"1", "+", "=">> /\ Display = <<"2">>

\* C12: an operator key pressed right after an operator key, with an
\* operator pending, only replaces the pending operator: display and
\* accumulator are unchanged.
C12_OperatorSubstitution ==
  [][(key \in Ops /\ key' \in Ops /\ PendingOperator # "null") =>
       /\ Display' = Display
       /\ Accumulator' = Accumulator
       /\ PendingOperator' = key']_vars

\* the value percent computes from the display d
Hundredth(d) == NumDiv(StringToNumber(d), Num100)

\* C13 as claimed: percent on a display other than "Error" shows
\* Format(n / 100) and leaves no operand awaited.
C13_PercentEndsAwaiting ==
  [][(key' = "%" /\ Display # Error) =>
       /\ Display' = Format(Hundredth(Display))
       /\ ~AwaitingOperand']_vars

\* C13: percent on a display that parses to a finite n shows Format(n / 100);
\* page.tsx leaves awaitingOperand as it was and part_000 leaves an operand
\* awaited.
C13_PercentKeepsAwaiting ==
  [][(key' = "%" /\ Display # Error /\ IsFinite(StringToNumber(Display))) =>
       /\ Display' = Format(Hundredth(Display))
       /\ AwaitingOperand' = (app = "part_000" \/ AwaitingOperand)]_vars

C13_Witness ==
  /\ key = "%"
  /\ PendingOperator = "+"
  /\ AwaitingOperand
  /\ Display = <<"0", ".", "0", "1">>

C15_DigitsReconstruct ==
  (/\ log # <<>>
   /\ AllDigits(log)
   /\ Len(log) <= MaxDisplayLen
   /\ (Len(log) = 1 \/ log[1] # "0")) =>
    /\ Display = log
    /\ Accumulator = null
    /\ PendingOperator = "null"

C15_Witness ==
  Len(log) = MaxDisplayLen /\ AllDigits(log) /\ log[Len(log)] = "0"
  /\ Display = log

\* C16: in page.tsx a digit d pressed on a display other than "Error" and
\* "0", no operand awaited, appends d when the display has fewer than 18
\* characters and leaves the display unchanged otherwise.
C16_DigitOnlyAppends ==
  [][(/\ app = "page"
      /\ key' \in DigitKeys
      /\ ~isDisplayError(state.display)
      /\ ~state.waitingForNext
      /\ state.display # <<"0">>) =>
       state'.display = IF Len(state.display) < MaxDisplayLen
                        THEN Append(state.display, key')
                        ELSE state.display]_vars

\* C17: a second Dot right after a Dot changes neither display, accumulator,
\* pending operator nor the awaiting of an operand.
C17_DotIdempotent ==
  [][(key = "." /\ key' = ".") =>
       /\ Display' = Display
       /\ Accumulator' = Accumulator
       /\ PendingOperator' = PendingOperator
       /\ AwaitingOperand' = AwaitingOperand]_vars

\* C18: toggle-sign on a display that parses to zero leaves the display
\* unchanged (and so makes no "-0" of it).
C18_ToggleSignKeepsZero ==
  [][(/\ key' = "sign"
      /\ Display # Error
      /\ IsFinite(StringToNumber(Display))
      /\ IsZero(StringToNumber(Display))) =>
       Display' = Display]_vars

\* C19: Backspace leaves display, accumulator and pending operator unchanged
\* while an operand is awaited, shows "0" after a display of one character
\* or of a minus sign and one character, and shows "0" after "Error".
C19_BackspaceAtTheEdges ==
  [][key' = "Backspace" =>
       /\ Display = Error => Display' = <<"0">>
       /\ (Display # Error /\ AwaitingOperand) =>
            /\ Display' = Display
            /\ Accumulator' = Accumulator
            /\ PendingOperator' = PendingOperator
       /\ (/\ Display # Error
           /\ ~AwaitingOperand
           /\ (Len(Display) = 1 \/ (Len(Display) = 2 /\ Display[1] = "-"))) =>
            Display' = <<"0">>]_vars

\* C20: the pending operator is absent whenever the accumulator is absent.
C20_NoOperatorWithoutAccumulator ==
  Accumulator = null => PendingOperator = "null"

C20_Witness ==
  /\ log = <<"1", "+", "1", "=">>
  /\ app = "part_000"
  /\ Accumulator = null
  /\ PendingOperator = "null"

\* C21: the keys . 1 + . 2 = show "0.3": Format(Evaluate(0.1, 0.2, "+")) is
\* "0.3" in both files.
C21_SumWithoutNoise ==
  log = <<".", "1", "+", ".", "2", "=">> =>
    /\ Format(Evaluate(Entered(log, 1, 2), Entered(log, 4, 5), "+"))
         = <<"0", ".", "3">>
    /\ Display = <<"0", ".", "3">>

\* C22: clear-entry in page.tsx shows "0", awaits an operand and leaves the
\* accumulator and the pending operator as they were.
C22_ClearEntry ==
  [][(app = "page" /\ key' = "CE") =>
       /\ Display' = <<"0">>
       /\ AwaitingOperand'
       /\ Accumulator' = Accumulator
       /\ PendingOperator' = PendingOperator]_vars

C22_Witness ==
  /\ app = "page"
  /\ key = "CE"
  /\ Display = <<"0">>
  /\ AwaitingOperand
  /\ Accumulator = Entered(<<"1">>, 1, 1)
  /\ PendingOperator = "+"

\* the first "=" of the log l
FirstEquals(l) == CHOOSE e \in EqualsAt(l) : \A f \in EqualsAt(l) : e <= f

\* the result the first "=" of the log l shows, the first operator at i: of
\* a op b, or of a op a when no b was typed
FirstResult(l, i) ==
  Evaluate(Entered(l, 1, i - 1),
           IF FirstEquals(l) = i + 1 THEN Entered(l, 1, i - 1)
           ELSE Entered(l, i + 1, FirstEquals(l) - 1),
           l[i])

\* the log l spells a first calculation that ends in a finite result, and
\* then operand keys (none when j follows the "="), the operator at j, and
\* either nothing more or an operand and "="
IsSecond(l, i, j) ==
  /\ OpsAt(l) = {i, j}
  /\ i < j
  /\ EqualsAt(l) # {}
  /\ FirstEquals(l) < j
  /\ EqualsAt(l) \subseteq {FirstEquals(l), Len(l)}
  /\ Len(l) # j + 1
  /\ Len(l) > j => l[Len(l)] = "="
  /\ IsFinite(FirstResult(l, i))

\* C23: in page.tsx, after a successful equals, a number n typed and an
\* operator op make n the accumulator with op pending, and m = then shows
\* Format(Evaluate(n, m, op)).
C23_NumberAfterResultStartsAnew ==
  \A i, j \in 1..Len(log) :
    (app = "page" /\ IsSecond(log, i, j) /\ FirstEquals(log) < j - 1) =>
      /\ Len(log) = j =>
           /\ Accumulator = Entered(log, FirstEquals(log) + 1, j - 1)
           /\ PendingOperator = log[j]
      /\ Len(log) > j =>
           Display = Format(Evaluate(Entered(log, FirstEquals(log) + 1, j - 1),
                                     Entered(log, j + 1, Len(log) - 1),
                                     log[j]))

\* C24: in page.tsx, while the display is not "Error", an operand is awaited
\* and an operator is pending, the display's number is the accumulator.
C24_DisplayIsAccumulatorWhileAwaiting ==
  (/\ app = "page"
   /\ ~isDisplayError(state.display)
   /\ state.waitingForNext
   /\ state.op # "null") =>
    StringToNumber(state.display) = state.prev

\* C25 as claimed: after a successful equals with result r, an operator op
\* leaves the display and makes op pending, and m = then shows
\* Format(Evaluate(r, m, op)).
C25_ResultContinued ==
  \A i, j \in 1..Len(log) :
    (IsSecond(log, i, j) /\ FirstEquals(log) = j - 1) =>
      /\ Len(log) = j =>
           /\ Display = Format(FirstResult(log, i))
           /\ PendingOperator = log[j]
      /\ Len(log) > j =>
           Display = Format(Evaluate(FirstResult(log, i),
                                     Entered(log, j + 1, Len(log) - 1),
                                     log[j]))

\* the left operand an operator takes right after a result r: page.tsx keeps
\* r, part_000 reads the display that shows r
Continued(r) == IF app = "page" THEN r ELSE StringToNumber(Format(r))

\* C25: after a successful equals with result r, an operator op leaves the
\* display and makes op pending with page.tsx's r, or the number part_000's
\* display shows, as accumulator, and m = then shows Format(Evaluate(that
\* accumulator, m, op)).
C25_ResultOrDisplayContinued ==
  \A i, j \in 1..Len(log) :
    (IsSecond(log, i, j) /\ FirstEquals(log) = j - 1) =>
      /\ Len(log) = j =>
           /\ Display = Format(FirstResult(log, i))
           /\ Accumulator = Continued(FirstResult(log, i))
           /\ PendingOperator = log[j]
      /\ Len(log) > j =>
           Display = Format(Evaluate(Continued(FirstResult(log, i)),
                                     Entered(log, j + 1, Len(log) - 1),
                                     log[j]))

C25_Witness ==
  /\ app = "part_000"
  /\ log = <<".", "1", "/", "1", "1", "=", "*", "1", "0", "=">>
  /\ Display = <<"0", ".", "0", "9", "0", "9", "0", "9", "0", "9", "0", "9", "1">>

====
